---- MODULE Spec2Model ----
(***************************************************************************)
(* RAG-DOCUCHAT: the ingestion run and the query session of                *)
(* rag_qa_system.py, with the collection set-up of embeddings_storage.py   *)
(* and the document loading of pdf_handler.py.                             *)
(*                                                                         *)
(* One process of the main program is modelled from its start to its exit; *)
(* the vector database is persistent (./chroma_db), so the collection      *)
(* survives from one process to the next.  Texts are sequences of          *)
(* one-character strings.  Distances and similarities are exact values in  *)
(* units of 1/Scale (Scale stands for the number 1.0).                     *)
(***************************************************************************)
EXTENDS Integers, Sequences, FiniteSets, TLC

\* ---------------------------------------------------------------- bounds
MaxChunks == 3      \* longest chunk sequence the splitter returns
VecMod == 4         \* embedding values are 0 .. VecMod-1
Scale == 4          \* the value 1.0, in distance units

\* ------------------------------------------------------- program constants
K_TEST == 2         \* n_results of the test queries
K_INTERACTIVE == 3  \* n_results of the interactive session

\* --------------------------------------------------------------- strings
Whitespace == {" ", "\t", "\n"}

RECURSIVE LStrip(_)
LStrip(s) ==
    IF s # <<>> /\ Head(s) \in Whitespace THEN LStrip(Tail(s)) ELSE s

RECURSIVE RStrip(_)
RStrip(s) ==
    IF s # <<>> /\ s[Len(s)] \in Whitespace
    THEN RStrip(SubSeq(s, 1, Len(s) - 1))
    ELSE s

\* str.strip()
Strip(s) == RStrip(LStrip(s))

LowerChar(c) ==
    CASE c = "Q" -> "q"
      [] c = "U" -> "u"
      [] c = "I" -> "i"
      [] c = "T" -> "t"
      [] c = "E" -> "e"
      [] c = "X" -> "x"
      [] c = "Y" -> "y"
      [] c = "S" -> "s"
      [] c = "N" -> "n"
      [] c = "O" -> "o"
      [] OTHER -> c

\* str.lower()
Lower(s) == [i \in 1..Len(s) |-> LowerChar(s[i])]

\* the list ['quit', 'exit', 'q'] of interactive_qa_session
ExitWords == { <<"q","u","i","t">>, <<"e","x","i","t">>, <<"q">> }

\* the list ['yes', 'y'] of the main program
YesWords == { <<"y","e","s">>, <<"y">> }

\* ----------------------------------------------------------- file system
\* What load_document meets at a path: the text of the file, or the reason
\* no text comes back.
NoneText == [ok |-> FALSE, text |-> <<>>]
SomeText(t) == [ok |-> TRUE, text |-> t]

Paths == {"sample_doc.txt", "missing.txt", "empty.txt", "notes.md",
          "scan.pdf", "broken.pdf", "report.pdf"}

Extension(p) ==
    CASE p \in {"sample_doc.txt", "missing.txt", "empty.txt"} -> ".txt"
      [] p \in {"scan.pdf", "broken.pdf", "report.pdf"} -> ".pdf"
      [] OTHER -> ".md"

FileExists(p) == p # "missing.txt"

FileContent(p) ==
    CASE p = "sample_doc.txt" -> <<"A", "I", " ", "m", "l">>
      [] p = "report.pdf" -> <<"n", "n", "\n", "\n">>
      [] p = "scan.pdf" -> <<"\n", "\n">>
      [] OTHER -> <<>>

\* extract_text_from_pdf: None for a missing or unreadable file
extract_text_from_pdf(p) ==
    IF ~FileExists(p) \/ p = "broken.pdf" THEN NoneText
    ELSE SomeText(FileContent(p))

\* load_document: dispatch on the extension
load_document(p) ==
    IF Extension(p) = ".pdf" THEN extract_text_from_pdf(p)
    ELSE IF Extension(p) = ".txt"
         THEN IF FileExists(p) THEN SomeText(FileContent(p)) ELSE NoneText
         ELSE NoneText

\* Python truth value of the loaded text (None and "" are false)
Truthy(t) == t.ok /\ t.text # <<>>

\* ------------------------------------------------------ splitter, provider
\* The chunk texts the text splitter may return.
ChunkTexts == { <<"A", "I">>, <<"m", "l">>, <<"n", "n">> }

RECURSIVE SeqsUpTo(_, _)
SeqsUpTo(S, n) ==
    IF n = 0 THEN { <<>> }
    ELSE LET shorter == SeqsUpTo(S, n - 1)
         IN  shorter \cup { Append(s, x) : s \in shorter, x \in S }

\* text_splitter.split_text: an ordered list of chunk texts
ChunkLists == SeqsUpTo(ChunkTexts, MaxChunks)

CharCode(c) ==
    CASE c \in {"A", "a", "q", "w"} -> 0
      [] c \in {"I", "i", "m", "h"} -> 1
      [] c \in {"l", "M", "L", "y"} -> 2
      [] OTHER -> 3

RECURSIVE CodeSum(_)
CodeSum(s) == IF s = <<>> THEN 0 ELSE CharCode(Head(s)) + CodeSum(Tail(s))

\* model.encode of one text: a deterministic vector
EncodeOne(s) == CodeSum(s) % VecMod

\* model.encode(list): same length and order as the input
Encode(texts) == [i \in 1..Len(texts) |-> EncodeOne(texts[i])]

\* squared L2 distance of two vectors
Distance(v, w) == (v - w) * (v - w)

\* ------------------------------------------------------------ vector store
\* An entry of the collection.
Entry(id, doc, vec) == [id |-> id, text |-> doc, vec |-> vec]

\* collection.add(ids, documents, embeddings): appends one entry per position
Add(col, ids, documents, vectors) ==
    col \o [i \in 1..Len(ids) |-> Entry(ids[i], documents[i], vectors[i])]

\* position of entry i of col when the entries are ordered by ascending
\* distance to v, entries at equal distance staying in insertion order
Rank(col, v, i) ==
    1 + Cardinality({ j \in 1..Len(col) :
          \/ Distance(col[j].vec, v) < Distance(col[i].vec, v)
          \/ /\ Distance(col[j].vec, v) = Distance(col[i].vec, v)
             /\ j < i })

Nearest(col, v, r) == CHOOSE i \in 1..Len(col) : Rank(col, v, i) = r

Min(a, b) == IF a <= b THEN a ELSE b

\* collection.query(query_embeddings=[v], n_results=k): the k nearest
\* entries, nearest first
Query(col, v, k) ==
    LET n == Min(k, Len(col))
    IN  [documents |-> [r \in 1..n |-> col[Nearest(col, v, r)].text],
         distances |-> [r \in 1..n |-> Distance(col[Nearest(col, v, r)].vec, v)]]

\* ------------------------------------------------------------------ state
VARIABLES
    pc,             \* position of the main program
    outcome,        \* how the last process ended
    collection,     \* entries of the collection "qa_documents" on disk
    prior,          \* entries of the collection when the process started
    DOCUMENT_PATH,  \* the document of this run
    text,           \* embed_document: the loaded text
    chunks,         \* embed_document: the chunk list
    embeddings,     \* embed_document: the vectors of the chunks
    add_call,       \* embed_document: the arguments handed to collection.add
    num_chunks,     \* the value embed_document returned
    qi,             \* index of the test query being run
    session,        \* interactive_qa_session: none, running, ended, aborted
    raw,            \* the line input() returned last
    query,          \* the question being processed
    ret_chunks,     \* retrieve_relevant_chunks: the chunk texts
    similarities,   \* retrieve_relevant_chunks: the similarity scores
    answer,         \* the value generate_answer_with_ollama returned
    cycle           \* the calls made for the current question, in order

vars == <<pc, outcome, collection, prior, DOCUMENT_PATH, text, chunks,
          embeddings, add_call, num_chunks, qi, session, raw, query,
          ret_chunks, similarities, answer, cycle>>

ingestVars == <<text, chunks, embeddings, add_call, num_chunks>>
questionVars == <<qi, session, raw, query, ret_chunks, similarities,
                  answer, cycle>>

NoAnswer == [kind |-> "none"]
NoAddCall == [ids |-> <<>>, documents |-> <<>>, embeddings |-> <<>>]

\* the three fixed questions of the main program, abbreviated
test_queries == << <<"A", "I">>, <<"M", "L">>, <<"N", "N">> >>

\* lines typed at the prompts
UserInputs == { <<"q">>, <<" ", "Q", "U", "I", "T", "\n">>,
                <<"E", "x", "i", "t", " ">>, <<"q", "u", "i", "t", "s">>,
                <<>>, <<" ", "\t">>, <<"h", "i">>, <<" ", "w", "h", "y">> }

YesNoInputs == { <<"y">>, <<" ", "Y", "E", "S">>, <<"n", "o">>, <<>> }

\* what the generation backend does with one request
BackendOutcomes == {"ok", "connection_error", "timeout", "http_error",
                    "no_response_key"}

\* the outcomes requests reports as a RequestException
RequestExceptions == {"connection_error", "timeout", "http_error"}

Init ==
    /\ pc = "stopped"
    /\ outcome = "none"
    /\ collection = <<>>
    /\ prior = <<>>
    /\ DOCUMENT_PATH = "sample_doc.txt"
    /\ text = NoneText
    /\ chunks = <<>>
    /\ embeddings = <<>>
    /\ add_call = NoAddCall
    /\ num_chunks = 0
    /\ qi = 0
    /\ session = "none"
    /\ raw = <<>>
    /\ query = <<>>
    /\ ret_chunks = <<>>
    /\ similarities = <<>>
    /\ answer = NoAnswer
    /\ cycle = <<>>

\* ---------------------------------------------------------- main program
\* The process starts: the path prompt, then the model and the client.
\* An empty line keeps the default path.
Start ==
    /\ pc = "stopped"
    /\ \E user_file \in Paths \cup {""} :
          DOCUMENT_PATH' = IF user_file # "" THEN user_file
                           ELSE "sample_doc.txt"
    /\ pc' = "setup"
    /\ outcome' = "running"
    /\ prior' = collection
    /\ text' = NoneText
    /\ chunks' = <<>>
    /\ embeddings' = <<>>
    /\ add_call' = NoAddCall
    /\ num_chunks' = 0
    /\ qi' = 0
    /\ session' = "none"
    /\ raw' = <<>>
    /\ query' = <<>>
    /\ ret_chunks' = <<>>
    /\ similarities' = <<>>
    /\ answer' = NoAnswer
    /\ cycle' = <<>>
    /\ UNCHANGED collection

\* create_or_get_collection: delete the collection if it exists, then
\* create it empty
create_or_get_collection(col) == <<>>

Setup ==
    /\ pc = "setup"
    /\ collection' = create_or_get_collection(collection)
    /\ pc' = "load"
    /\ UNCHANGED <<outcome, prior, DOCUMENT_PATH, ingestVars, questionVars>>

\* embed_document, step 1: load the document; no text ends the call with 0
Load ==
    /\ pc = "load"
    /\ text' = load_document(DOCUMENT_PATH)
    /\ IF ~Truthy(text')
       THEN /\ num_chunks' = 0
            /\ pc' = "check"
       ELSE /\ num_chunks' = num_chunks
            /\ pc' = "chunk"
    /\ UNCHANGED <<outcome, collection, prior, DOCUMENT_PATH, chunks,
                   embeddings, add_call, questionVars>>

\* embed_document, step 2: split_into_chunks
Chunk ==
    /\ pc = "chunk"
    /\ \E cs \in ChunkLists : chunks' = cs
    /\ pc' = "embed"
    /\ UNCHANGED <<outcome, collection, prior, DOCUMENT_PATH, text,
                   embeddings, add_call, num_chunks, questionVars>>

\* embed_document, step 3: model.encode(chunks)
Embed ==
    /\ pc = "embed"
    /\ embeddings' = Encode(chunks)
    /\ pc' = "store"
    /\ UNCHANGED <<outcome, collection, prior, DOCUMENT_PATH, text, chunks,
                   add_call, num_chunks, questionVars>>

\* ids that do not follow the chunk index
ChunkIdsHalved(n) == [i \in 1..n |-> <<"doc_chunk", (i - 1) \div 2>>]

\* the ids of embed_document: doc_chunk_0, doc_chunk_1, ...
ChunkIds(n) == [i \in 1..n |-> <<"doc_chunk", i - 1>>]

\* embed_document, step 4: collection.add.  An add of no entries is
\* either refused by the store with an exception or a no-op.
Store ==
    /\ pc = "store"
    /\ add_call' = [ids |-> ChunkIds(Len(chunks)), documents |-> chunks,
                    embeddings |-> embeddings]
    /\ \/ /\ Len(add_call'.ids) = Len(add_call'.documents)
          /\ Len(add_call'.ids) = Len(add_call'.embeddings)
          /\ collection' = Add(collection, add_call'.ids,
                               add_call'.documents, add_call'.embeddings)
          /\ pc' = "stored"
          /\ outcome' = outcome
       \/ /\ \/ Len(add_call'.ids) = 0
             \/ Len(add_call'.ids) # Len(add_call'.documents)
             \/ Len(add_call'.ids) # Len(add_call'.embeddings)
          /\ collection' = collection
          /\ pc' = "stopped"
          /\ outcome' = "exception"
    /\ UNCHANGED <<prior, DOCUMENT_PATH, text, chunks, embeddings,
                   num_chunks, questionVars>>

\* embed_document returns len(chunks); its locals are gone
Return ==
    /\ pc = "stored"
    /\ num_chunks' = Len(chunks)
    /\ pc' = "check"
    /\ UNCHANGED <<outcome, collection, prior, DOCUMENT_PATH, text, chunks,
                   embeddings, add_call, questionVars>>

\* if num_chunks == 0: exit(1); otherwise on to the test queries
Check ==
    /\ pc = "check"
    /\ IF num_chunks = 0
       THEN /\ pc' = "stopped"
            /\ outcome' = "exit1"
            /\ UNCHANGED <<prior, ingestVars>>
       ELSE /\ pc' = "batch_next"
            /\ outcome' = outcome
            /\ prior' = <<>>
            /\ text' = NoneText
            /\ chunks' = <<>>
            /\ embeddings' = <<>>
            /\ add_call' = NoAddCall
            /\ num_chunks' = num_chunks
    /\ qi' = IF num_chunks = 0 THEN qi ELSE 1
    /\ UNCHANGED <<collection, DOCUMENT_PATH, session, raw, query,
                   ret_chunks, similarities, answer, cycle>>

\* ------------------------------------------------------------ the queries
Event(op, k) == [op |-> op, k |-> k]

\* for query in test_queries: the next test query, or the yes/no prompt
\* after the last one
BatchNext ==
    /\ pc = "batch_next"
    /\ IF qi <= Len(test_queries)
       THEN /\ query' = test_queries[qi]
            /\ cycle' = <<>>
            /\ ret_chunks' = <<>>
            /\ similarities' = <<>>
            /\ answer' = NoAnswer
            /\ pc' = "retrieve"
       ELSE /\ pc' = "ask"
            /\ UNCHANGED <<query, cycle, ret_chunks, similarities, answer>>
    /\ UNCHANGED <<outcome, collection, prior, DOCUMENT_PATH, ingestVars,
                   qi, session, raw>>

\* the yes/no prompt: the session starts on 'yes' or 'y' with its own
\* local variables, any other line ends the program
Ask ==
    /\ pc = "ask"
    /\ \E line \in YesNoInputs :
          LET user_input == Lower(Strip(line))
          IN  IF user_input \in YesWords
              THEN /\ session' = "running"
                   /\ pc' = "read"
                   /\ outcome' = outcome
                   /\ query' = <<>>
                   /\ ret_chunks' = <<>>
                   /\ similarities' = <<>>
                   /\ answer' = NoAnswer
                   /\ cycle' = <<>>
              ELSE /\ session' = session
                   /\ pc' = "stopped"
                   /\ outcome' = "exit0"
                   /\ UNCHANGED <<query, ret_chunks, similarities, answer,
                                  cycle>>
    /\ UNCHANGED <<collection, prior, DOCUMENT_PATH, ingestVars, qi, raw>>

\* interactive_qa_session: read a line; an exit word ends the session, an
\* empty question is skipped
ReadInput ==
    /\ pc = "read"
    /\ \E line \in UserInputs :
          /\ raw' = line
          /\ query' = Strip(line)
    /\ cycle' = <<>>
    /\ ret_chunks' = <<>>
    /\ similarities' = <<>>
    /\ answer' = NoAnswer
    /\ IF Lower(query') \in ExitWords
       THEN /\ session' = "ended"
            /\ pc' = "stopped"
            /\ outcome' = "exit0"
       ELSE /\ session' = session
            /\ outcome' = outcome
            /\ pc' = IF query' = <<>> THEN "read" ELSE "retrieve"
    /\ UNCHANGED <<collection, prior, DOCUMENT_PATH, ingestVars, qi>>

\* the distance handed on as the score
SimilarityRaw(d) == d

\* similarity of a distance: 1 - d
Similarity(d) == Scale - d

\* retrieve_relevant_chunks: the texts and the similarities of the
\* n_results nearest entries, in the order the store returned them
retrieve_relevant_chunks(q, col, n_results) ==
    LET query_embedding == Encode(<<q>>)[1]
        results == Query(col, query_embedding, n_results)
    IN  [chunks |-> results.documents,
         similarities |-> [i \in 1..Len(results.distances) |->
                              Similarity(results.distances[i])]]

\* n_results of the current question
NResults == IF session = "running" THEN K_INTERACTIVE ELSE K_TEST

Retrieve ==
    /\ pc = "retrieve"
    /\ LET r == retrieve_relevant_chunks(query, collection, NResults)
       IN  /\ ret_chunks' = r.chunks
           /\ similarities' = r.similarities
    /\ cycle' = Append(cycle, Event("retrieve", NResults))
    /\ pc' = "generate"
    /\ UNCHANGED <<outcome, collection, prior, DOCUMENT_PATH, ingestVars,
                   qi, session, raw, query, answer>>

\* the prompt: the context chunks in the order given, then the question
Prompt(q, context_chunks) == [context |-> context_chunks, question |-> q]

\* generate_answer_with_ollama: the answer of the backend, or the error
\* text for a RequestException; any other exception leaves the function
Generate ==
    /\ pc = "generate"
    /\ cycle' = Append(cycle, Event("generate", 0))
    /\ \E result \in BackendOutcomes :
          IF result = "ok"
          THEN /\ answer' = [kind |-> "answer",
                             prompt |-> Prompt(query, ret_chunks)]
               /\ pc' = "display"
               /\ UNCHANGED <<outcome, session>>
          ELSE IF result \in RequestExceptions
          THEN /\ answer' = [kind |-> "error", error |-> result]
               /\ pc' = "display"
               /\ UNCHANGED <<outcome, session>>
          ELSE /\ answer' = answer
               /\ pc' = "stopped"
               /\ outcome' = "exception"
               /\ session' = IF session = "running" THEN "aborted"
                             ELSE session
    /\ UNCHANGED <<collection, prior, DOCUMENT_PATH, ingestVars, qi, raw,
                   query, ret_chunks, similarities>>

\* display_answer_with_sources, then the next question
Display ==
    /\ pc = "display"
    /\ cycle' = Append(cycle, Event("display", 0))
    /\ IF session = "running"
       THEN /\ pc' = "read"
            /\ qi' = qi
       ELSE /\ pc' = "batch_next"
            /\ qi' = qi + 1
    /\ UNCHANGED <<outcome, collection, prior, DOCUMENT_PATH, ingestVars,
                   session, raw, query, ret_chunks, similarities, answer>>

Next ==
    \/ Start
    \/ Setup
    \/ Load
    \/ Chunk
    \/ Embed
    \/ Store
    \/ Return
    \/ Check
    \/ BatchNext
    \/ Ask
    \/ ReadInput
    \/ Retrieve
    \/ Generate
    \/ Display

Spec == Init /\ [][Next]_vars

TypeOK ==
    /\ pc \in {"stopped", "setup", "load", "chunk", "embed", "store",
               "stored", "check", "batch_next", "ask", "read", "retrieve",
               "generate", "display"}
    /\ outcome \in {"none", "running", "exit0", "exit1", "exception"}
    /\ session \in {"none", "running", "ended", "aborted"}
    /\ chunks \in ChunkLists
    /\ Len(collection) <= MaxChunks
    /\ Len(ret_chunks) = Len(similarities)

\* ================================================================ claims
IsExitWord(line) == Lower(Strip(line)) \in ExitWords

FullCycle(k) ==
    << Event("retrieve", k), Event("generate", 0), Event("display", 0) >>

AtRest == pc \in {"read", "batch_next", "ask", "stopped"}

\* C1: an ingestion run (collection set-up, then embed_document) on a path
\* that does not exist reports 0 chunks and leaves the collection with
\* exactly the entries it held before the run.
C1_MissingFileKeepsCollection ==
    (pc = "check" /\ ~FileExists(DOCUMENT_PATH))
        => (num_chunks = 0 /\ collection = prior)

\* C2: the collection is reset by the Storing step of embed_document and
\* by nothing else: every step that changes the collection is the Storing
\* step, and it leaves exactly the entries of the run's chunks.
C2_ResetInStoringStep ==
    [][ collection' # collection
          => /\ pc = "store"
             /\ Len(collection') = Len(chunks)
             /\ \A i \in 1..Len(chunks) : collection'[i].text = chunks[i]
      ]_vars

\* C3: the session has stopped exactly when the line read last is an exit
\* word after trimming and lower-casing; a line that is not one keeps the
\* loop running, and no retrieval or generation follows an exit word.
C3_StopsOnlyOnExitWord ==
    /\ session \in {"ended", "aborted"} => IsExitWord(raw)
    /\ (session = "running" /\ pc # "read") => ~IsExitWord(raw)
    /\ session = "ended" => cycle = <<>>

\* C4: a question whose trimmed text is empty causes no call; every other
\* question that is not an exit word causes one retrieval with the fixed
\* k, then one generation on the retrieved texts, then one display; the
\* answer depends on the current question only.
C4_OneCyclePerQuestion ==
    /\ AtRest =>
         IF session \in {"running", "aborted"}
         THEN IF query = <<>> \/ Lower(query) \in ExitWords
              THEN cycle = <<>>
              ELSE cycle = FullCycle(K_INTERACTIVE)
         ELSE IF session = "ended"
              THEN cycle = <<>>
              ELSE /\ cycle \in { <<>>, FullCycle(K_TEST) }
                   /\ (pc = "batch_next" /\ qi > 1)
                         => cycle = FullCycle(K_TEST)
    /\ (pc = "display" /\ answer.kind = "answer")
         => answer.prompt = Prompt(query, ret_chunks)

\* C5: generate_answer_with_ollama never throws: whatever the backend
\* does, the call returns an answer or an error text and the caller goes
\* on to display it.
C5_GenerateNeverThrows ==
    [][ pc = "generate"
          => /\ pc' = "display"
             /\ answer'.kind \in {"answer", "error"}
             /\ session' = session
      ]_vars

\* C6: after the add of an ingestion the collection holds one entry per
\* chunk: the entry with id index i holds the text of chunk i and the
\* embedding of chunk i; ids, texts and vectors handed to add are equally
\* many; the ids in the collection are pairwise distinct.
C6_EntriesMatchChunks ==
    /\ pc = "stored" =>
         /\ Len(add_call.ids) = Len(chunks)
         /\ Len(add_call.documents) = Len(chunks)
         /\ Len(add_call.embeddings) = Len(chunks)
         /\ Len(collection) = Len(chunks)
         /\ \A i \in 0..(Len(chunks) - 1) :
              \E j \in 1..Len(collection) :
                 /\ collection[j].id = <<"doc_chunk", i>>
                 /\ collection[j].text = chunks[i + 1]
                 /\ collection[j].vec = EncodeOne(chunks[i + 1])
    /\ \A a, b \in 1..Len(collection) :
          a # b => collection[a].id # collection[b].id

\* C6 witness: an ingestion of three chunks, two of them with the same
\* text, has been stored
C6_Witness ==
    /\ pc = "stored"
    /\ Len(chunks) = 3
    /\ chunks[1] = chunks[3]
    /\ chunks[1] # chunks[2]
    /\ Len(collection) = 3

\* C8: retrieve_relevant_chunks returns as many similarities as texts,
\* position by position those of the store's result; each similarity is
\* 1 - d of the entry at its position, so distance 0 gives 1 and a larger
\* distance a strictly smaller similarity; the order of the store is kept
\* and the similarities are non-increasing.
C8_SimilarityAligned ==
    pc \in {"generate", "display"} =>
        LET v == EncodeOne(query)
            res == Query(collection, v, NResults)
        IN  /\ Len(ret_chunks) = Len(similarities)
            /\ ret_chunks = res.documents
            /\ Len(similarities) = Len(res.distances)
            /\ \A i \in 1..Len(similarities) :
                 /\ similarities[i] + res.distances[i] = Scale
                 /\ res.distances[i] = 0 => similarities[i] = Scale
                 /\ \E j \in 1..Len(collection) :
                       /\ collection[j].text = ret_chunks[i]
                       /\ similarities[i] + Distance(collection[j].vec, v)
                             = Scale
            /\ \A i, j \in 1..Len(similarities) :
                 /\ res.distances[i] < res.distances[j]
                       => similarities[i] > similarities[j]
                 /\ i < j => similarities[i] >= similarities[j]

\* C8 witness: a retrieval whose nearest entry is at distance 0 and is not
\* the entry stored first, followed by an entry farther away
C8_Witness ==
    /\ pc = "display"
    /\ Len(similarities) >= 2
    /\ similarities[1] = Scale
    /\ similarities[1] > similarities[2]
    /\ ret_chunks[1] # collection[1].text

\* the exit status of a process that has ended: exit(1) and an uncaught
\* exception give 1, running off the end of the program gives 0
ExitCode == IF outcome = "exit0" THEN 0 ELSE 1

Ended == pc = "stopped" /\ outcome # "none"

\* C12: a load that gives no text ends embed_document with 0 before any
\* chunking, embedding or add; the program exits with status 1 when the
\* ingestion gave zero chunks and with status 0 otherwise, and makes no
\* retrieval or generation call after a zero-chunk ingestion.
C12_ExitCodeFollowsChunkCount ==
    /\ [][ (pc = "load" /\ ~Truthy(load_document(DOCUMENT_PATH)))
             => /\ pc' = "check"
                /\ num_chunks' = 0
                /\ UNCHANGED <<chunks, embeddings, add_call, collection>>
         ]_vars
    /\ []( (pc = "check" /\ ~Truthy(text))
             => (chunks = <<>> /\ embeddings = <<>> /\ add_call = NoAddCall) )
    /\ []( (Ended /\ num_chunks = 0)
             => (ExitCode = 1 /\ cycle = <<>> /\ qi = 0 /\ session = "none") )
    /\ []( (Ended /\ num_chunks > 0) => ExitCode = 0 )

====
